---- MODULE Spec2Model ----
(***************************************************************************)
(* Model of custom_components/azurespeech_stt/stt.py: the Azure Speech     *)
(* speech-to-text provider.  One provider object is built by               *)
(* async_get_engine; async_process_audio_stream is a coroutine, so each    *)
(* action below is the code that runs between two suspension points of one *)
(* invocation (asyncio runs it without interleaving).                      *)
(***************************************************************************)
EXTENDS Integers, Sequences, FiniteSets, TLC

\* ------------------------------------------------------------------ bounds
MaxInvocations == 2   \* concurrent invocations of async_process_audio_stream
MaxChunks == 2        \* chunks a stream yields before it ends

Invocations == 1..MaxInvocations

\* ------------------------------------------------------- values and inputs
\* An unbound name / the absence of an object.
None == [none |-> TRUE]
WAV == "wav"
OGG == "ogg"
SUCCESS == "success"
ERROR == "error"

\* Text is a tuple of characters, so that split(',') has something to do.
CONF_API_KEY == "api_key"
CONF_LANG == "language"
DEFAULT_LANG == <<"e", "n", "-", "U", "S">>

\* Platform configurations handed to async_get_engine (PLATFORM_SCHEMA:
\* api_key and region required, language optional).
Configs ==
  { (CONF_API_KEY :> "key-A") @@ ("region" :> "westeurope"),
    (CONF_API_KEY :> "key-B") @@ ("region" :> "eastus")
      @@ (CONF_LANG :> <<"e", "n", ",", "f", "r">>) }

\* SpeechMetadata values a caller passes (fields used by the code).
Metadatas ==
  { [format |-> WAV, channel |-> 1, bit_rate |-> 16, sample_rate |-> 16000],
    [format |-> WAV, channel |-> 2, bit_rate |-> 24, sample_rate |-> 44100],
    [format |-> OGG, channel |-> 1, bit_rate |-> 16, sample_rate |-> 16000] }

\* Chunks a stream may yield: byte strings.
Chunks == { <<0>>, <<1, 2>> }

\* What the remote service does with a recognize-once call: it resolves with
\* a reason and a text, or never resolves.
NeverResolves == [reason |-> "never", text |-> <<>>]
Services ==
  { [reason |-> "RecognizedSpeech", text |-> <<"h", "i">>],
    [reason |-> "NoMatch", text |-> <<>>],
    NeverResolves }

\* -------------------------------------------------------------------- state
VARIABLES
  config,        \* the configuration async_get_engine is called with
  service,       \* the remote service's behaviour (environment)
  provider,      \* the AzureSpeechSTTProvider instance: attribute -> value
  errors_logged, \* _LOGGER.error records: <<invocation, format>>
  pc,            \* per invocation: "idle", "drain", "await", "done"
  metadata,      \* per invocation: the metadata argument
  delivered,     \* per invocation: the chunks its stream has yielded so far
  data,          \* per invocation: local `data`
  wav_stream,    \* per invocation: local `wav_stream` (the WAV file written)
  reg,           \* per invocation: local `reg` (the SpeechRecognizer built)
  calls,         \* per invocation: recognize_once_async calls issued
  timeout_armed, \* per invocation: inside `async with async_timeout.timeout`
  result         \* per invocation: what the coroutine returned or raised

vars == << config, service, provider, errors_logged, pc, metadata, delivered,
           data, wav_stream, reg, calls, timeout_armed, result >>

\* ------------------------------------------------------------ pure helpers
\* str.split(','): the pieces between commas, empty pieces kept.
RECURSIVE SplitFrom(_, _)
SplitFrom(s, cur) ==
  IF s = <<>> THEN << cur >>
  ELSE IF Head(s) = ","
       THEN << cur >> \o SplitFrom(Tail(s), <<>>)
       ELSE SplitFrom(Tail(s), Append(cur, Head(s)))

Split(s) == SplitFrom(s, <<>>)

\* dict.get(key, default)
Get(d, key, default) == IF key \in DOMAIN d THEN d[key] ELSE default

\* AzureSpeechSTTProvider.__init__: the attributes it sets.  The region
\* parameter is received and not stored.
NewProvider(hass, api_key, lang, region) ==
  ("hass" :> hass) @@ ("_api_key" :> api_key) @@ ("_language" :> lang)

HasAttr(obj, name) == name \in DOMAIN obj

default_language(self) == Split(self["_language"])[1]

supported_languages(self) == Split(self["_language"])

supported_formats == << WAV >>

SpeechResult(text, state) == [text |-> text, result |-> state]

Return(value) == [kind |-> "return", value |-> value]

Raise(exc) == [kind |-> "raise", value |-> [exception |-> exc]]

\* The check of metadata.format at the top of async_process_audio_stream.
FormatUnchecked(md) == TRUE

FormatSupported(md) == md.format = WAV

\* data += chunk
AccumulateReversed(d, chunk) == chunk \o d

Accumulate(d, chunk) == d \o chunk

\* `data` is a local of the invocation's own frame.
StoreLocalShared(locals, i, v) == [j \in DOMAIN locals |-> v]

StoreLocal(locals, i, v) == [locals EXCEPT ![i] = v]

\* setsampwidth(metadata.bit_rate // 8)
SampWidthBits(md) == md.bit_rate

SampWidth(md) == md.bit_rate \div 8

\* wave.open(wav_stream, 'w') ... writeframes(data): the file's header fields
\* and its data chunk.
WaveWrite(md, d) ==
  [ nchannels |-> md.channel,
    sampwidth |-> SampWidth(md),
    framerate |-> md.sample_rate,
    bitspersample |-> SampWidth(md) * 8,
    blockalign |-> md.channel * SampWidth(md),
    nframes |-> Len(d) \div (md.channel * SampWidth(md)),
    datalength |-> Len(d),
    frames |-> d ]

\* str(result.reason) of the SDK's ResultReason enumeration.
StrReason(reason) == << "ResultReason", reason >>

\* The mapping of the recognition result at the end of the coroutine.
MapResult(r) ==
  IF r.reason = "RecognizedSpeech"
  THEN Return(SpeechResult(r.text, SUCCESS))
  ELSE Return(SpeechResult(StrReason(r.reason), ERROR))

\* ------------------------------------------------------------------- Init
NoLocals == [i \in Invocations |-> None]

Init ==
  /\ config \in Configs
  /\ service \in Services
  /\ provider = None
  /\ errors_logged = {}
  /\ pc = [i \in Invocations |-> "idle"]
  /\ metadata = NoLocals
  /\ delivered = [i \in Invocations |-> <<>>]
  /\ data = [i \in Invocations |-> <<>>]
  /\ wav_stream = NoLocals
  /\ reg = NoLocals
  /\ calls = [i \in Invocations |-> 0]
  /\ timeout_armed = [i \in Invocations |-> FALSE]
  /\ result = NoLocals

\* ---------------------------------------------------------------- actions
\* async_get_engine(hass, config)
async_get_engine ==
  /\ provider = None
  /\ LET api_key == config[CONF_API_KEY]
         languages == Get(config, CONF_LANG, DEFAULT_LANG)
         region == Get(config, "region", None)
     IN provider' = NewProvider("hass", api_key, languages, region)
  /\ UNCHANGED << config, service, errors_logged, pc, metadata, delivered,
                  data, wav_stream, reg, calls, timeout_armed, result >>

\* async_process_audio_stream is called with an unsupported format: it logs
\* and returns the error result without touching the stream.
CallUnsupported(i, md) ==
  /\ provider # None
  /\ pc[i] = "idle"
  /\ ~FormatSupported(md)
  /\ metadata' = [metadata EXCEPT ![i] = md]
  /\ errors_logged' = errors_logged \cup { << i, md.format >> }
  /\ result' = [result EXCEPT ![i] = Return(SpeechResult(<<>>, ERROR))]
  /\ pc' = [pc EXCEPT ![i] = "done"]
  /\ UNCHANGED << config, service, provider, delivered, data, wav_stream,
                  reg, calls, timeout_armed >>

\* async_process_audio_stream is called with a supported format: data = b''
\* and the coroutine suspends on the stream's first chunk.
CallSupported(i, md) ==
  /\ provider # None
  /\ pc[i] = "idle"
  /\ FormatSupported(md)
  /\ metadata' = [metadata EXCEPT ![i] = md]
  /\ data' = StoreLocal(data, i, <<>>)
  /\ pc' = [pc EXCEPT ![i] = "drain"]
  /\ UNCHANGED << config, service, provider, errors_logged, delivered,
                  wav_stream, reg, calls, timeout_armed, result >>

\* The stream yields a chunk: data += chunk, and the coroutine suspends on
\* the next one.
NextChunk(i, chunk) ==
  /\ pc[i] = "drain"
  /\ Len(delivered[i]) < MaxChunks
  /\ delivered' = [delivered EXCEPT ![i] = Append(@, chunk)]
  /\ data' = StoreLocal(data, i, Accumulate(data[i], chunk))
  /\ UNCHANGED << config, service, provider, errors_logged, pc, metadata,
                  wav_stream, reg, calls, timeout_armed, result >>

\* The stream ends: the WAV file is written, then the SpeechConfig is built
\* from self._api_key and self._region.  Reading an attribute the instance
\* does not have raises AttributeError; otherwise the recognizer is built,
\* the timeout is armed, recognize_once_async is called and awaited.
StreamEnd(i) ==
  /\ pc[i] = "drain"
  /\ wav_stream' = [wav_stream EXCEPT ![i] = WaveWrite(metadata[i], data[i])]
  /\ IF HasAttr(provider, "_api_key") /\ HasAttr(provider, "_region")
     THEN /\ reg' = [reg EXCEPT ![i] =
                       [ subscription |-> provider["_api_key"],
                         region |-> provider["_region"],
                         languages |-> supported_languages(provider),
                         audio |-> wav_stream'[i] ]]
          /\ timeout_armed' = [timeout_armed EXCEPT ![i] = TRUE]
          /\ calls' = [calls EXCEPT ![i] = @ + 1]
          /\ pc' = [pc EXCEPT ![i] = "await"]
          /\ UNCHANGED result
     ELSE /\ result' = [result EXCEPT ![i] = Raise("AttributeError")]
          /\ pc' = [pc EXCEPT ![i] = "done"]
          /\ UNCHANGED << reg, timeout_armed, calls >>
  /\ UNCHANGED << config, service, provider, errors_logged, metadata,
                  delivered, data >>

\* recognize_once_async resolves inside the timeout: the result is mapped.
RecognizeResolved(i) ==
  /\ pc[i] = "await"
  /\ service # NeverResolves
  /\ result' = [result EXCEPT ![i] = MapResult(service)]
  /\ timeout_armed' = [timeout_armed EXCEPT ![i] = FALSE]
  /\ pc' = [pc EXCEPT ![i] = "done"]
  /\ UNCHANGED << config, service, provider, errors_logged, metadata,
                  delivered, data, wav_stream, reg, calls >>

\* The 20 seconds pass first: the wait is cancelled and TimeoutError leaves
\* the coroutine.
RecognizeTimeout(i) ==
  /\ pc[i] = "await"
  /\ timeout_armed[i]
  /\ result' = [result EXCEPT ![i] = Raise("TimeoutError")]
  /\ timeout_armed' = [timeout_armed EXCEPT ![i] = FALSE]
  /\ pc' = [pc EXCEPT ![i] = "done"]
  /\ UNCHANGED << config, service, provider, errors_logged, metadata,
                  delivered, data, wav_stream, reg, calls >>

\* ---------------------------------------------------------- specifications
Next ==
  \/ async_get_engine
  \/ \E i \in Invocations, md \in Metadatas : CallUnsupported(i, md)
  \/ \E i \in Invocations, md \in Metadatas : CallSupported(i, md)
  \/ \E i \in Invocations, chunk \in Chunks : NextChunk(i, chunk)
  \/ \E i \in Invocations : StreamEnd(i)

Spec == Init /\ [][Next]_vars

\* The same program with the steps after the recognizer is built.  They need
\* pc = "await", which StreamEnd never sets on a provider built by __init__.
NextWithRecognition ==
  \/ Next
  \/ \E i \in Invocations : RecognizeResolved(i)
  \/ \E i \in Invocations : RecognizeTimeout(i)

SpecWithRecognition == Init /\ [][NextWithRecognition]_vars

RecognitionNeverAwaited == \A i \in Invocations : pc[i] # "await"

\* ------------------------------------------------------------ properties
Called(i) == metadata[i] # None

Ended(i) == pc[i] = "done"

\* c1 || c2 || ... || cn
RECURSIVE Concatenation(_)
Concatenation(chunks) ==
  IF chunks = <<>> THEN <<>>
  ELSE Head(chunks) \o Concatenation(Tail(chunks))

\* C1: an invocation whose metadata format is not WAV has ended by returning
\* (not raising) the ERROR result with empty text, without reading a chunk,
\* writing a WAV file, building a recognizer or issuing a recognition call.
C1_UnsupportedFormatReturnsError ==
  \A i \in Invocations :
    (Called(i) /\ metadata[i].format # WAV) =>
      /\ Ended(i)
      /\ result[i] = [kind |-> "return",
                      value |-> [text |-> <<>>, result |-> ERROR]]
      /\ delivered[i] = <<>>
      /\ data[i] = <<>>
      /\ wav_stream[i] = None
      /\ reg[i] = None
      /\ calls[i] = 0
      /\ << i, metadata[i].format >> \in errors_logged

C1_Witness ==
  \E i \in Invocations :
    /\ Called(i) /\ metadata[i].format = OGG /\ Ended(i)
    /\ \E j \in Invocations : pc[j] = "drain" /\ delivered[j] # <<>>

\* C2: every ended invocation with WAV metadata, where the remote service
\* answers RecognizedSpeech with text t, returned SUCCESS with exactly t.
C2_RecognizedSpeechReturnsSuccess ==
  \A i \in Invocations :
    (Called(i) /\ metadata[i].format = WAV /\ Ended(i)
       /\ service.reason = "RecognizedSpeech") =>
      /\ result[i].kind = "return"
      /\ result[i].value = [text |-> service.text, result |-> SUCCESS]

\* C3: every ended invocation with WAV metadata, where the remote service
\* answers with another reason, returned (never raised) ERROR whose text is
\* the stringified reason.
C3_OtherReasonReturnsError ==
  \A i \in Invocations :
    (Called(i) /\ metadata[i].format = WAV /\ Ended(i)
       /\ service # NeverResolves /\ service.reason # "RecognizedSpeech") =>
      /\ result[i].kind = "return"
      /\ result[i].value = [text |-> << "ResultReason", service.reason >>,
                            result |-> ERROR]

\* C4: every ended invocation with WAV metadata, where the remote service
\* never resolves, ended by raising the timeout failure (not by a SUCCESS or
\* ERROR result, and not by another failure).
C4_UnresolvedCallRaisesTimeout ==
  \A i \in Invocations :
    (Called(i) /\ metadata[i].format = WAV /\ Ended(i)
       /\ service = NeverResolves) =>
      /\ result[i].kind = "raise"
      /\ result[i].value = [exception |-> "TimeoutError"]

\* C5: with WAV metadata, the bytes accumulated while draining, and the data
\* chunk of the WAV file written once the stream has ended, are the
\* concatenation of the chunks the stream yielded, in the order yielded.
C5_PayloadIsConcatenation ==
  \A i \in Invocations :
    /\ (Called(i) /\ metadata[i].format = WAV) =>
         data[i] = Concatenation(delivered[i])
    /\ wav_stream[i] # None =>
         /\ wav_stream[i].frames = Concatenation(delivered[i])
         /\ wav_stream[i].datalength = Len(Concatenation(delivered[i]))

C5_Witness ==
  /\ \E i \in Invocations :
       /\ wav_stream[i] # None
       /\ Len(delivered[i]) = MaxChunks
       /\ delivered[i][1] # delivered[i][2]
  /\ \E i \in Invocations :
       /\ wav_stream[i] # None
       /\ delivered[i] = <<>>
       /\ wav_stream[i].frames = <<>>

\* C6: every ended invocation with WAV metadata issued exactly one
\* recognition call and has exactly one terminal result.
C6_ExactlyOneRecognitionCall ==
  \A i \in Invocations :
    /\ (Called(i) /\ metadata[i].format = WAV /\ Ended(i)) =>
         (calls[i] = 1 /\ result[i] # None)
    /\ calls[i] <= 1

\* C7: once built, the provider holds the configured api key, region and
\* languages, and every recognizer built is built against them.
C7_ConfigurationStored ==
  provider # None =>
    /\ "_api_key" \in DOMAIN provider
    /\ provider["_api_key"] = config[CONF_API_KEY]
    /\ "_region" \in DOMAIN provider
    /\ provider["_region"] = config["region"]
    /\ "_language" \in DOMAIN provider
    /\ provider["_language"] = Get(config, CONF_LANG, DEFAULT_LANG)
    /\ \A i \in Invocations :
         reg[i] # None =>
           /\ reg[i].subscription = config[CONF_API_KEY]
           /\ reg[i].region = config["region"]
           /\ reg[i].languages = Split(Get(config, CONF_LANG, DEFAULT_LANG))

\* C8: invocations do not interfere.  Two invocations that were given the
\* same metadata and the same chunks and stand at the same point hold the
\* same bytes, WAV file and result; a step that is not invocation i's leaves
\* i's locals and result alone; and the provider, once built, never changes
\* and holds nothing but its configuration.
C8_SameInputsSameOutputs ==
  \A i, j \in Invocations :
    (metadata[i] = metadata[j] /\ delivered[i] = delivered[j]
       /\ pc[i] = pc[j]) =>
      (data[i] = data[j] /\ wav_stream[i] = wav_stream[j]
         /\ result[i] = result[j])

C8_OthersUntouched ==
  \A i \in Invocations :
    (pc'[i] = pc[i] /\ delivered'[i] = delivered[i]) =>
      /\ data'[i] = data[i]
      /\ wav_stream'[i] = wav_stream[i]
      /\ result'[i] = result[i]
      /\ metadata'[i] = metadata[i]

C8_ProviderImmutable ==
  provider # None =>
    /\ provider' = provider
    /\ DOMAIN provider \subseteq {"hass", "_api_key", "_language"}

C8_NoSharedMutableState ==
  /\ []C8_SameInputsSameOutputs
  /\ [][C8_OthersUntouched /\ C8_ProviderImmutable]_vars

C8_Witness ==
  \E i, j \in Invocations :
    /\ i # j
    /\ Ended(i) /\ wav_stream[i] # None /\ wav_stream[i].frames # <<>>
    /\ pc[j] = "drain" /\ data[j] # <<>>
    /\ data[j] # data[i]
    /\ metadata[i] # metadata[j]

\* C9: the WAV file written has the metadata's channel count, its bit depth
\* divided by 8 as sample width, and its sample rate as frame rate; mono
\* 16-bit 16000 Hz gives 1, 2, 16000.
C9_HeaderFromMetadata ==
  \A i \in Invocations :
    /\ (Called(i) /\ metadata[i].format = WAV /\ Ended(i)) =>
         wav_stream[i] # None
    /\ wav_stream[i] # None =>
         /\ wav_stream[i].nchannels = metadata[i].channel
         /\ wav_stream[i].sampwidth * 8 = metadata[i].bit_rate
         /\ wav_stream[i].framerate = metadata[i].sample_rate
         /\ (metadata[i].channel = 1 /\ metadata[i].bit_rate = 16
               /\ metadata[i].sample_rate = 16000) =>
              (wav_stream[i].nchannels = 1 /\ wav_stream[i].sampwidth = 2
                 /\ wav_stream[i].framerate = 16000)

C9_Witness ==
  /\ \E i \in Invocations :
       /\ wav_stream[i] # None
       /\ metadata[i].bit_rate = 16 /\ metadata[i].channel = 1
       /\ wav_stream[i].sampwidth = 2
  /\ \E i \in Invocations :
       /\ wav_stream[i] # None
       /\ metadata[i].bit_rate # 16 /\ metadata[i].channel = 2

\* C10: every ended invocation with WAV metadata built its recognizer on the
\* WAV file of the whole drained stream and issued the recognition call, and
\* no invocation still draining has built a recognizer, armed the timeout or
\* issued a call.
C10_RecognitionAfterDrain ==
  \A i \in Invocations :
    /\ (Called(i) /\ metadata[i].format = WAV /\ Ended(i)) =>
         /\ reg[i] # None
         /\ reg[i].audio.frames = Concatenation(delivered[i])
         /\ calls[i] >= 1
    /\ pc[i] = "drain" =>
         (reg[i] = None /\ calls[i] = 0 /\ ~timeout_armed[i])

====
